---- MODULE Spec2Model ----
(***************************************************************************)
(* Rate acquisition, conversion and history of the currency converter     *)
(* (src/main.py): OnlineRateProvider, OfflineRateProvider, HistoryManager *)
(* and CurrencyConverter, with the cache file and the remote quote source *)
(* as the environment.                                                    *)
(*                                                                         *)
(* Numbers are exact rationals <<n, d>> in lowest terms with d > 0; the   *)
(* code's floats are their approximations.  Python's None is the empty    *)
(* tuple and an optional value v that is present is the tuple <<v>>.      *)
(***************************************************************************)
EXTENDS Integers, Sequences, FiniteSets, TLC

VARIABLES
    exchange_rate_provider, \* CurrencyConverter.exchange_rate_provider (main.py:181)
    cache_file,             \* content of CACHE_FILE on disk (main.py:30, 112)
    history_list,           \* HistoryManager.history_list (main.py:158)
    clock,                  \* the reading datetime.now() gives (main.py:45, 210)
    op,                     \* the call that made the last step, with its arguments
    ret,                    \* what that call returned
    saved,                  \* the entries given to save_entry since construction
                            \* or the last clear_history, in order
    returned,               \* the value get_all_rates or get_history handed to its
                            \* caller, as the caller holds it now
    call,                   \* the get_exchange_rate the UI thread is inside of
    refresh,                \* the fetch_rates the refresh thread is inside of
    fetched                 \* the non-empty table the last fetch_rates wrote to the
                            \* cache file, None once the file is written again

vars ==
    <<exchange_rate_provider, cache_file, history_list, clock, op, ret, saved, returned,
      call, refresh, fetched>>

-----------------------------------------------------------------------------
(* Bounds *)

MaxClock == 2       \* Spec: largest clock reading
MaxConverts == 1    \* SpecConvert: longest history built
MaxSaves == 52      \* SpecHistory: entries saved over a run

-----------------------------------------------------------------------------
(* Python values *)

None == <<>>
Some(v) == <<v>>

Abs(x) == IF x < 0 THEN -x ELSE x

RECURSIVE GCD(_, _)
GCD(a, b) == IF b = 0 THEN a ELSE GCD(b, a % b)

\* the number n/d (d # 0), in lowest terms
Rat(n, d) ==
    LET g == GCD(Abs(n), Abs(d))
        s == IF d < 0 THEN -1 ELSE 1
    IN  <<(s * n) \div g, (s * d) \div g>>

Zero == Rat(0, 1)
One == Rat(1, 1)

RMul(a, b) == Rat(a[1] * b[1], a[2] * b[2])
\* a / b for b # 0
RDiv(a, b) == Rat(a[1] * b[2], a[2] * b[1])
RLtZero(a) == a[1] < 0
RLeqZero(a) == a[1] <= 0

\* dict.get(key, default) on a rate table
Get(t, k) == IF k \in DOMAIN t THEN t[k] ELSE Zero
\* dict.get(field, default) on the cache document: an absent field is None
FieldGet(f, default) == IF f = None THEN default ELSE f[1]

EmptyTable == [c \in {} |-> Zero]
\* bool(dict)
bool(t) == DOMAIN t # {}

-----------------------------------------------------------------------------
(* Text: a string is a tuple of one-character strings *)

DigitChars == <<"0", "1", "2", "3", "4", "5", "6", "7", "8", "9">>
Digit(n) == DigitChars[n + 1]
DigitVal(c) == CHOOSE i \in 0..9 : DigitChars[i + 1] = c
IsDigits(s) == Len(s) > 0 /\ \A i \in 1..Len(s) : \E j \in 1..10 : DigitChars[j] = s[i]

RECURSIVE DigitsVal(_)
DigitsVal(s) ==
    IF s = <<>> THEN 0
    ELSE 10 * DigitsVal(SubSeq(s, 1, Len(s) - 1)) + DigitVal(s[Len(s)])

\* float(amount) on texts over digits, "-" and letters: an optional sign and at
\* least one digit, anything else raises ValueError
float(amount) ==
    IF IsDigits(amount)
    THEN [exc |-> None, val |-> Rat(DigitsVal(amount), 1)]
    ELSE IF Len(amount) > 1 /\ amount[1] = "-" /\ IsDigits(Tail(amount))
    THEN [exc |-> None, val |-> Rat(-DigitsVal(Tail(amount)), 1)]
    ELSE [exc |-> Some("ValueError"), val |-> None]

\* A datetime is [t |-> minutes, usec |-> sub-second part]; the model's clock
\* advances in whole minutes.
datetime(t, usec) == [t |-> t, usec |-> usec]

\* strftime("%Y-%m-%d %H:%M:%S"): the sub-second part is not printed
strftime_cache(dt) == <<Digit(dt.t \div 10), Digit(dt.t % 10)>>

\* strptime(s, "%Y-%m-%d %H:%M:%S"): ValueError unless s has the format
strptime(s) ==
    IF Len(s) = 2 /\ IsDigits(s)
    THEN [exc |-> None, val |-> datetime(DigitsVal(s), 0)]
    ELSE [exc |-> Some("ValueError"), val |-> None]

\* strftime("%d.%m.%Y %H:%M") of a conversion record
strftime_entry(dt) == <<Digit(dt.t \div 10), ".", Digit(dt.t % 10)>>

-----------------------------------------------------------------------------
(* Currency codes and rate tables *)

\* CurrencyConverter.currencies: the supported codes
currencies ==
    {"USD", "EUR", "UAH", "GBP", "JPY", "CAD", "AUD", "CHF", "CNY", "SEK", "NOK",
     "PLN", "CZK", "TRY"}

\* the static table of OfflineRateProvider.__init__
StaticRates ==
    [USD |-> Rat(1, 1), EUR |-> Rat(85, 100), UAH |-> Rat(37, 1), GBP |-> Rat(73, 100),
     JPY |-> Rat(110, 1), CAD |-> Rat(125, 100), AUD |-> Rat(135, 100),
     CHF |-> Rat(92, 100), CNY |-> Rat(645, 100), SEK |-> Rat(875, 100),
     NOK |-> Rat(895, 100), PLN |-> Rat(385, 100), CZK |-> Rat(215, 10),
     TRY |-> Rat(825, 100), RUB |-> Rat(75, 1)]

\* tables the remote source answers with (data['rates'])
RemoteA == [USD |-> Rat(1, 1), EUR |-> Rat(2, 1), GBP |-> Rat(4, 1)]
RemoteB == [USD |-> Rat(1, 1), EUR |-> Rat(4, 1), RUB |-> Rat(8, 1)]
RemoteTables == {EmptyTable, RemoteA, RemoteB}

\* what requests.get gives: status 200 with a rates table, or one of the failures
RemoteFailures == {"timeout", "transport_error", "bad_status", "malformed"}
Responses ==
    [kind : {"ok"}, rates : RemoteTables] \cup [kind : RemoteFailures, rates : {EmptyTable}]

-----------------------------------------------------------------------------
(* The cache file *)

MissingFile ==
    [state |-> "missing", rates |-> None, base_currency |-> None, last_update |-> None]
\* unreadable, not JSON, or JSON that is not an object
CorruptFile ==
    [state |-> "corrupt", rates |-> None, base_currency |-> None, last_update |-> None]
\* a JSON object; a field that is absent is None
JsonFile(rates, base_currency, last_update) ==
    [state |-> "json", rates |-> rates, base_currency |-> base_currency,
     last_update |-> last_update]

CachedC == [EUR |-> Rat(1, 1), USD |-> Rat(2, 1), GBP |-> Rat(0, 1)]
\* a table that has no entry for its own base currency
CachedD == [EUR |-> Rat(2, 1), GBP |-> Rat(4, 1)]

\* what an earlier run, another instance or the user may have left on disk
ExternalFiles ==
    {MissingFile,
     CorruptFile,
     JsonFile(None, None, None),
     JsonFile(Some(EmptyTable), Some("USD"), Some(strftime_cache(datetime(0, 0)))),
     JsonFile(Some(CachedC), Some("EUR"), Some(strftime_cache(datetime(0, 0)))),
     JsonFile(Some(RemoteA), Some("USD"), Some(<<"x">>)),
     JsonFile(Some(RemoteA), None, Some(<<>>)),
     JsonFile(Some(CachedD), Some("USD"), Some(<<>>))}

-----------------------------------------------------------------------------
(* OnlineRateProvider *)

\* OnlineRateProvider.__init__
OnlineRateProvider ==
    [kind |-> "Online", rates |-> EmptyTable, base_currency |-> "USD", last_update |-> None]

\* OnlineRateProvider.save_cache: io is how the write went.  open(..., "w")
\* truncates the file before json.dump writes it, so a write that fails after
\* the open leaves a file that no longer parses.
save_cache(p, file, io) ==
    IF io = "ok"
    THEN JsonFile(Some(p.rates), Some(p.base_currency),
                  Some(IF p.last_update # None THEN strftime_cache(p.last_update[1])
                       ELSE <<>>))
    ELSE IF io = "open_fails" THEN file
    ELSE CorruptFile

\* OnlineRateProvider.load_cache: the provider after the call and the value returned
load_cache(p, file) ==
    IF file.state # "json"
    THEN [provider |-> p, ret |-> FALSE]
    ELSE
        LET rates1 == FieldGet(file.rates, EmptyTable)
            base1 == FieldGet(file.base_currency, "USD")
            last_update_str == FieldGet(file.last_update, <<>>)
            p1 == [p EXCEPT !.rates = rates1, !.base_currency = base1]
            parsed == strptime(last_update_str)
        IN  IF last_update_str = <<>>
            THEN [provider |-> p1, ret |-> bool(rates1)]
            ELSE IF parsed.exc # None
            THEN [provider |-> p1, ret |-> FALSE]
            ELSE [provider |-> [p1 EXCEPT !.last_update = Some(parsed.val)],
                  ret |-> bool(rates1)]

\* OnlineRateProvider.fetch_rates: response is what requests.get gave, now the
\* reading of datetime.now(), io how the cache write went
fetch_rates(p, file, response, now, io) ==
    IF response.kind = "ok"
    THEN
        LET p1 == [p EXCEPT !.rates = response.rates, !.last_update = Some(now)]
        IN  [provider |-> p1, cache_file |-> save_cache(p1, file, io), ret |-> TRUE]
    ELSE
        LET loaded == load_cache(p, file)
        IN  [provider |-> loaded.provider, cache_file |-> file, ret |-> loaded.ret]

\* get_exchange_rate with the cross rate the wrong way round
Online_get_exchange_rate_inverted(p, from_currency, to_currency) ==
    IF ~bool(p.rates) THEN Zero
    ELSE IF from_currency = to_currency THEN One
    ELSE IF from_currency = p.base_currency THEN Get(p.rates, to_currency)
    ELSE IF to_currency = p.base_currency
    THEN
        LET from_rate == Get(p.rates, from_currency)
        IN  IF from_rate # Zero THEN RDiv(One, from_rate) ELSE Zero
    ELSE
        LET from_rate == Get(p.rates, from_currency)
            to_rate == Get(p.rates, to_currency)
        IN  IF from_rate # Zero /\ to_rate # Zero THEN RDiv(from_rate, to_rate) ELSE Zero

\* OnlineRateProvider.get_exchange_rate
Online_get_exchange_rate(p, from_currency, to_currency) ==
    IF ~bool(p.rates) THEN Zero
    ELSE IF from_currency = to_currency THEN One
    ELSE IF from_currency = p.base_currency THEN Get(p.rates, to_currency)
    ELSE IF to_currency = p.base_currency
    THEN
        LET from_rate == Get(p.rates, from_currency)
        IN  IF from_rate # Zero THEN RDiv(One, from_rate) ELSE Zero
    ELSE
        LET from_rate == Get(p.rates, from_currency)
            to_rate == Get(p.rates, to_currency)
        IN  IF from_rate # Zero /\ to_rate # Zero THEN RDiv(to_rate, from_rate) ELSE Zero

-----------------------------------------------------------------------------
(* OfflineRateProvider *)

\* OfflineRateProvider.load_cache
Offline_load_cache(file) ==
    IF file.state # "json" THEN EmptyTable ELSE FieldGet(file.rates, EmptyTable)

\* __init__ keeping whatever load_cache gave, the empty table included
OfflineRateProvider_no_fallback(file) ==
    [kind |-> "Offline", rates |-> Offline_load_cache(file)]

\* __init__ keeping the static table whatever the cache file holds
OfflineRateProvider_static_only(file) ==
    [kind |-> "Offline", rates |-> StaticRates]

\* OfflineRateProvider.__init__
OfflineRateProvider(file) ==
    LET loaded == Offline_load_cache(file)
    IN  [kind |-> "Offline", rates |-> IF ~bool(loaded) THEN StaticRates ELSE loaded]

\* OfflineRateProvider.get_exchange_rate
Offline_get_exchange_rate(p, from_currency, to_currency) ==
    IF from_currency = to_currency THEN One
    ELSE
        LET from_rate == Get(p.rates, from_currency)
            to_rate == Get(p.rates, to_currency)
        IN  IF from_rate # Zero /\ to_rate # Zero THEN RDiv(to_rate, from_rate) ELSE Zero

-----------------------------------------------------------------------------
(* HistoryManager and CurrencyConverter *)

HistoryCap == 50

\* save_entry without the eviction
save_entry_unbounded(list, entry) == Append(list, entry)

\* save_entry evicting with pop() where the code has pop(0)
save_entry_drops_newest(list, entry) ==
    LET appended == Append(list, entry)
    IN  IF Len(appended) > HistoryCap THEN SubSeq(appended, 1, HistoryCap) ELSE appended

\* HistoryManager.save_entry
save_entry(list, entry) ==
    LET appended == Append(list, entry)
    IN  IF Len(appended) > HistoryCap THEN Tail(appended) ELSE appended

\* get_exchange_rate asking the provider the engine was constructed with, an
\* Online one, whatever has been installed since
get_exchange_rate_of_first_provider(p, from_currency, to_currency) ==
    IF p.kind = "Online"
    THEN Online_get_exchange_rate(p, from_currency, to_currency)
    ELSE Online_get_exchange_rate(OnlineRateProvider, from_currency, to_currency)

\* CurrencyConverter.get_exchange_rate: the installed provider's method
get_exchange_rate(p, from_currency, to_currency) ==
    IF p.kind = "Online"
    THEN Online_get_exchange_rate(p, from_currency, to_currency)
    ELSE Offline_get_exchange_rate(p, from_currency, to_currency)

Failure(kind, list) ==
    [result |-> None, error |-> Some(kind), raised |-> None, history_list |-> list,
     entries |-> <<>>]

\* convert saving the entry before it looks at the rate
convert_saves_before_rate_check(p, list, amount, from_currency, to_currency, now) ==
    LET parsed == float(amount)
        rate == get_exchange_rate(p, from_currency, to_currency)
        result == RMul(parsed.val, rate)
        entry ==
            [timestamp |-> strftime_entry(now), amount |-> parsed.val,
             from_currency |-> from_currency, to_currency |-> to_currency,
             rate |-> rate, result |-> result]
    IN  IF parsed.exc # None THEN Failure("InvalidAmount", list)
        ELSE IF RLtZero(parsed.val) THEN Failure("NegativeAmount", list)
        ELSE IF RLeqZero(rate) THEN Failure("RateUnavailable", save_entry(list, entry))
        ELSE [result |-> result, error |-> None, raised |-> None,
              history_list |-> save_entry(list, entry), entries |-> <<entry>>]

\* convert asking for the rate before it looks at the amount's sign
convert_rate_before_sign(p, list, amount, from_currency, to_currency, now) ==
    LET parsed == float(amount)
        rate == get_exchange_rate(p, from_currency, to_currency)
        result == RMul(parsed.val, rate)
        entry ==
            [timestamp |-> strftime_entry(now), amount |-> parsed.val,
             from_currency |-> from_currency, to_currency |-> to_currency,
             rate |-> rate, result |-> result]
    IN  IF parsed.exc # None THEN Failure("InvalidAmount", list)
        ELSE IF RLeqZero(rate) THEN Failure("RateUnavailable", list)
        ELSE IF RLtZero(parsed.val) THEN Failure("NegativeAmount", list)
        ELSE [result |-> result, error |-> None, raised |-> None,
              history_list |-> save_entry(list, entry), entries |-> <<entry>>]

\* convert dividing by the rate where the code multiplies
convert_divides(p, list, amount, from_currency, to_currency, now) ==
    LET parsed == float(amount)
        rate == get_exchange_rate(p, from_currency, to_currency)
        result == RDiv(parsed.val, rate)
        entry ==
            [timestamp |-> strftime_entry(now), amount |-> parsed.val,
             from_currency |-> from_currency, to_currency |-> to_currency,
             rate |-> rate, result |-> result]
    IN  IF parsed.exc # None THEN Failure("InvalidAmount", list)
        ELSE IF RLtZero(parsed.val) THEN Failure("NegativeAmount", list)
        ELSE IF RLeqZero(rate) THEN Failure("RateUnavailable", list)
        ELSE [result |-> result, error |-> None, raised |-> None,
              history_list |-> save_entry(list, entry), entries |-> <<entry>>]

\* CurrencyConverter.convert: the pair returned, the exception that left the
\* call (none does), the history after the call and the entries handed to
\* save_entry (datetime.now() is read for an entry only).  The messages returned are named by the error they report:
\*   "Некоректне значення суми" InvalidAmount, "Сума не може бути від'ємною"
\*   NegativeAmount, "Не вдалося отримати курс валют" RateUnavailable.
convert(p, list, amount, from_currency, to_currency, now) ==
    LET parsed == float(amount)
        rate == get_exchange_rate(p, from_currency, to_currency)
        result == RMul(parsed.val, rate)
        entry ==
            [timestamp |-> strftime_entry(now), amount |-> parsed.val,
             from_currency |-> from_currency, to_currency |-> to_currency,
             rate |-> rate, result |-> result]
    IN  IF parsed.exc # None THEN Failure("InvalidAmount", list)
        ELSE IF RLtZero(parsed.val) THEN Failure("NegativeAmount", list)
        ELSE IF RLeqZero(rate) THEN Failure("RateUnavailable", list)
        ELSE [result |-> result, error |-> None, raised |-> None,
              history_list |-> save_entry(list, entry), entries |-> <<entry>>]

-----------------------------------------------------------------------------
(* Values handed out, calls in flight *)

\* nothing handed out.  A value handed out is the caller's own dict (rates) or
\* the caller's own list of references to record objects (list); a reference
\* is the position the record object has in history_list.
NoReturn == [kind |-> "none", rates |-> EmptyTable, list |-> <<>>]

\* the UI thread is in no get_exchange_rate
NoCall ==
    [pc |-> "idle", from_currency |-> "", to_currency |-> "", from_rate |-> Zero,
     seen |-> {}]

\* the refresh thread is in no fetch_rates
NoRefresh ==
    [pc |-> "idle", response |-> [kind |-> "none", rates |-> EmptyTable],
     detached |-> FALSE, provider |-> OnlineRateProvider, before |-> OnlineRateProvider,
     cache_data |-> MissingFile, file |-> MissingFile]

\* toggle_offline_mode installs a new provider object: a fetch_rates in flight
\* goes on working on the object it was called on, `installed`
Detached(r, installed) ==
    IF r.pc # "idle" /\ ~r.detached
    THEN [r EXCEPT !.detached = TRUE, !.provider = installed]
    ELSE r

\* the table the cache file is known to hold after a fetch_rates: the fetched
\* one when it is non-empty and the write went through, the one known before
\* when nothing was written, none when the write failed after the open
Written(known, response, io) ==
    IF response.kind # "ok" THEN known
    ELSE IF io = "open_fails" THEN known
    ELSE IF io = "ok" /\ bool(response.rates) THEN Some(response.rates)
    ELSE None

-----------------------------------------------------------------------------
(* Inputs *)

\* sub-second parts datetime.now() may carry
USecs == {0, 1}
\* how the write of the cache file may go
IoOutcomes == {"ok", "open_fails", "write_fails"}
\* codes asked of get_exchange_rate: supported ones, RUB (unsupported, priced by
\* the static table) and XXX (unsupported, in no table)
QueryCodes == {"USD", "EUR", "GBP", "RUB", "XXX"}
\* pairs given to convert: from the base, a cross rate, to the base, an
\* unsupported code the tables may price, unsupported codes no table prices
ConvertPairs ==
    {<<"USD", "EUR">>, <<"EUR", "GBP">>, <<"EUR", "USD">>, <<"RUB", "USD">>,
     <<"USD", "XXX">>, <<"XXX", "XXX">>}
\* amount texts given to convert: "", "x", "-5", "0", "12"
AmountTexts == {<<>>, <<"x">>, <<"-", "5">>, <<"0">>, <<"1", "2">>}

-----------------------------------------------------------------------------
(* The state after main(): an Online provider with no rates, an empty history *)

Init ==
    /\ exchange_rate_provider = OnlineRateProvider
    /\ cache_file \in ExternalFiles
    /\ history_list = <<>>
    /\ clock = 1
    /\ op = [name |-> "main"]
    /\ ret = None
    /\ saved = <<>>
    /\ returned = NoReturn
    /\ call = NoCall
    /\ refresh = NoRefresh
    /\ fetched = None

\* fetch_rates on the installed Online provider (UserInterface.refresh_rates
\* calls it for an Online provider only), with the responses, sub-second parts
\* and write outcomes drawn from the given sets
FetchRatesWith(responses, usecs, ios) ==
    /\ exchange_rate_provider.kind = "Online"
    /\ \E response \in responses, usec \in usecs, io \in ios :
        \E r \in {fetch_rates(exchange_rate_provider, cache_file, response,
                             datetime(clock, usec), io)} :
            /\ exchange_rate_provider' = r.provider
            /\ cache_file' = r.cache_file
            /\ op' = [name |-> "fetch_rates", remote |-> response.kind]
            /\ ret' = r.ret
            /\ fetched' = Written(fetched, response, io)
    /\ UNCHANGED <<history_list, clock, saved, returned, call, refresh>>

FetchRates == FetchRatesWith(Responses, USecs, IoOutcomes)

\* UserInterface.toggle_offline_mode: the provider is replaced by a new one of
\* the other variant.  The refresh it starts for a new Online provider runs on
\* a thread of its own: it is a later FetchRates step.
ToggleOfflineMode ==
    /\ call.pc = "idle"
    /\ refresh' = Detached(refresh, exchange_rate_provider)
    /\ exchange_rate_provider' =
        IF exchange_rate_provider.kind = "Online"
        THEN OfflineRateProvider(cache_file)
        ELSE OnlineRateProvider
    /\ op' = [name |-> "toggle_offline_mode"]
    /\ ret' = None
    /\ UNCHANGED <<cache_file, history_list, clock, saved, returned, call, fetched>>

\* CurrencyConverter.get_exchange_rate
GetExchangeRate ==
    /\ \E from_currency \in QueryCodes, to_currency \in QueryCodes :
        /\ op' = [name |-> "get_exchange_rate", from_currency |-> from_currency,
                  to_currency |-> to_currency]
        /\ ret' = get_exchange_rate(exchange_rate_provider, from_currency, to_currency)
    /\ UNCHANGED <<exchange_rate_provider, cache_file, history_list, clock, saved,
                   returned, call, refresh, fetched>>

\* the cache file is shared with other instances and earlier runs
ExternalWriteOf(files) ==
    /\ \E file \in files : cache_file' = file
    /\ op' = [name |-> "external_write"]
    /\ ret' = None
    /\ fetched' = None
    /\ UNCHANGED <<exchange_rate_provider, history_list, clock, saved, returned, call,
                   refresh>>

ExternalWrite == ExternalWriteOf(ExternalFiles)

\* time passes
Tick ==
    /\ clock < MaxClock
    /\ clock' = clock + 1
    /\ op' = [name |-> "tick"]
    /\ ret' = None
    /\ UNCHANGED <<exchange_rate_provider, cache_file, history_list, saved, returned,
                   call, refresh, fetched>>

Next == FetchRates \/ ToggleOfflineMode \/ GetExchangeRate \/ ExternalWrite \/ Tick

\* the providers and the cache file
Spec == Init /\ [][Next]_vars

-----------------------------------------------------------------------------
(* Conversions *)

\* convert with the amounts and the <<from, to>> pairs drawn from the given
\* sets and the clock reading `reading` at its datetime.now(); a call that adds
\* an entry is taken only while there is room
ConvertWith(amounts, pairs, reading, room) ==
    \E amount \in amounts, pair \in pairs :
        \E r \in {convert(exchange_rate_provider, history_list, amount, pair[1], pair[2],
                         datetime(reading, 0))} :
            /\ r.entries # <<>> => room
            /\ history_list' = r.history_list
            /\ saved' = saved \o r.entries
            /\ clock' = IF r.entries # <<>> THEN reading ELSE clock
            /\ op' = [name |-> "convert", amount |-> amount,
                      from_currency |-> pair[1], to_currency |-> pair[2]]
            /\ ret' = [result |-> r.result, error |-> r.error, raised |-> r.raised]
            /\ UNCHANGED <<exchange_rate_provider, cache_file, returned, call, refresh,
                           fetched>>

Convert == ConvertWith(AmountTexts, ConvertPairs, clock, Len(saved) < MaxConverts)

\* HistoryManager.clear_history
ClearHistory ==
    /\ history_list' = <<>>
    /\ saved' = <<>>
    /\ op' = [name |-> "clear_history"]
    /\ ret' = None
    /\ UNCHANGED <<exchange_rate_provider, cache_file, clock, returned, call, refresh,
                   fetched>>

\* fetches that succeed, the cache file absent at the start
InitConvert == Init /\ cache_file = MissingFile

ConvertFetchRates ==
    FetchRatesWith([kind : {"ok"}, rates : {RemoteA, RemoteB}], {0}, {"ok"})

NextConvert == ConvertFetchRates \/ ToggleOfflineMode \/ Convert \/ ClearHistory

\* the engine over both provider variants
SpecConvert == InitConvert /\ [][NextConvert]_vars

-----------------------------------------------------------------------------
(* Long histories: every entry carries the clock reading of its own minute *)

\* convert, a minute after the last entry
TimedConvert ==
    ConvertWith({<<"x">>, <<"-", "5">>, <<"1", "2">>},
                {<<"USD", "EUR">>, <<"USD", "XXX">>}, clock + 1, clock <= MaxSaves)

\* the entry convert("12", "USD", "EUR") makes of the static table
HistoryEntry(now) ==
    [timestamp |-> strftime_entry(now), amount |-> Rat(12, 1), from_currency |-> "USD",
     to_currency |-> "EUR", rate |-> Rat(85, 100), result |-> Rat(1020, 100)]

\* HistoryManager.save_entry, called directly
SaveEntry ==
    /\ clock <= MaxSaves
    /\ history_list' = save_entry(history_list, HistoryEntry(datetime(clock + 1, 0)))
    /\ saved' = Append(saved, HistoryEntry(datetime(clock + 1, 0)))
    /\ clock' = clock + 1
    /\ op' = [name |-> "save_entry"]
    /\ ret' = None
    /\ UNCHANGED <<exchange_rate_provider, cache_file, returned, call, refresh, fetched>>

NextHistory == ToggleOfflineMode \/ TimedConvert \/ SaveEntry \/ ClearHistory

SpecHistory == InitConvert /\ [][NextHistory]_vars

-----------------------------------------------------------------------------
(* The cache by itself: save_cache of one provider, load_cache of another *)

\* what save_cache writes for last_update: the formatted timestamp, "" for None
last_update_text(last_update) ==
    IF last_update # None THEN strftime_cache(last_update[1]) ELSE <<>>

\* the snapshots a provider may hold when save_cache is called on it
Snapshots ==
    [kind : {"Online"}, rates : {EmptyTable, RemoteA, CachedC},
     base_currency : {"USD", "EUR"},
     last_update : {None} \cup {Some(datetime(t, usec)) : t \in 1..MaxClock, usec \in USecs}]

\* the states of the provider load_cache is called on: as constructed, and
\* after a fetch
Loaders ==
    {OnlineRateProvider,
     fetch_rates(OnlineRateProvider, MissingFile, [kind |-> "ok", rates |-> RemoteB],
                 datetime(MaxClock, 0), "ok").provider}

InitCache ==
    /\ exchange_rate_provider \in Loaders
    /\ cache_file \in ExternalFiles
    /\ history_list = <<>>
    /\ clock = 1
    /\ op = [name |-> "main"]
    /\ ret = None
    /\ saved = <<>>
    /\ returned = NoReturn
    /\ call = NoCall
    /\ refresh = NoRefresh
    /\ fetched = None

\* save_cache on a provider holding `snapshot`, the write going through
SaveCache ==
    /\ \E snapshot \in Snapshots :
        /\ cache_file' = save_cache(snapshot, cache_file, "ok")
        /\ op' = [name |-> "save_cache", snapshot |-> snapshot]
    /\ ret' = None
    /\ fetched' = None
    /\ UNCHANGED <<exchange_rate_provider, history_list, clock, saved, returned, call,
                   refresh>>

\* load_cache on the installed provider
LoadCache ==
    /\ \E r \in {load_cache(exchange_rate_provider, cache_file)} :
        /\ exchange_rate_provider' = r.provider
        /\ ret' = r.ret
    /\ op' = [name |-> "load_cache"]
    /\ UNCHANGED <<cache_file, history_list, clock, saved, returned, call, refresh,
                   fetched>>

NextCache == SaveCache \/ LoadCache

SpecCache == InitCache /\ [][NextCache]_vars

-----------------------------------------------------------------------------
(* Values handed out by get_all_rates and get_history, and what their caller
   does with them.  No step of this specification moves a stored record, so a
   reference stays the position of its record. *)

\* get_all_rates: self.rates.copy(), a dict of the caller's own holding numbers
GetAllRates ==
    /\ returned' = [kind |-> "rates", rates |-> exchange_rate_provider.rates, list |-> <<>>]
    /\ op' = [name |-> "get_all_rates"]
    /\ ret' = None
    /\ UNCHANGED <<exchange_rate_provider, cache_file, history_list, clock, saved, call,
                   refresh, fetched>>

\* get_history: self.history_list.copy(), a list of the caller's own whose items
\* are the record objects history_list holds
GetHistory ==
    /\ returned' =
        [kind |-> "history", rates |-> EmptyTable,
         list |-> [i \in 1..Len(history_list) |-> i]]
    /\ op' = [name |-> "get_history"]
    /\ ret' = None
    /\ UNCHANGED <<exchange_rate_provider, cache_file, history_list, clock, saved, call,
                   refresh, fetched>>

\* the caller sets (adds or changes) or deletes an entry of the dict it was given
CallerChangesTable ==
    /\ returned.kind = "rates"
    /\ \E c \in {"EUR", "XXX"}, v \in {None, Some(Rat(9, 1))} :
        returned' =
            [returned EXCEPT !.rates =
                [k \in IF v = None THEN DOMAIN @ \ {c} ELSE DOMAIN @ \cup {c} |->
                    IF k = c THEN v[1] ELSE @[k]]]
    /\ op' = [name |-> "caller_changes_table"]
    /\ ret' = None
    /\ UNCHANGED <<exchange_rate_provider, cache_file, history_list, clock, saved, call,
                   refresh, fetched>>

\* the caller appends an item of its own (reference 0) to the list it was
\* given, removes the first item, or reverses the list
CallerChangesList ==
    /\ returned.kind = "history"
    /\ \E edit \in {"append", "remove", "reverse"} :
        /\ edit = "append" => Len(returned.list) <= Len(history_list)
        /\ edit = "remove" => returned.list # <<>>
        /\ returned' =
            [returned EXCEPT !.list =
                IF edit = "append" THEN Append(@, 0)
                ELSE IF edit = "remove" THEN Tail(@)
                ELSE [i \in 1..Len(@) |-> @[Len(@) + 1 - i]]]
    /\ op' = [name |-> "caller_changes_list"]
    /\ ret' = None
    /\ UNCHANGED <<exchange_rate_provider, cache_file, history_list, clock, saved, call,
                   refresh, fetched>>

\* the caller assigns to a field of an item of the list it was given: the item
\* is the record object the history holds
CallerChangesRecord ==
    /\ returned.kind = "history"
    /\ \E i \in 1..Len(returned.list) :
        /\ returned.list[i] # 0
        /\ history_list' = [history_list EXCEPT ![returned.list[i]].amount = Rat(99, 1)]
    /\ op' = [name |-> "caller_changes_record"]
    /\ ret' = None
    /\ UNCHANGED <<exchange_rate_provider, cache_file, clock, saved, returned, call,
                   refresh, fetched>>

\* convert of 12 USD to EUR, to have records stored
CopiesConvert ==
    ConvertWith({<<"1", "2">>}, {<<"USD", "EUR">>}, clock, Len(saved) < MaxConverts)

NextCopies ==
    \/ ConvertFetchRates
    \/ ToggleOfflineMode
    \/ CopiesConvert
    \/ GetAllRates
    \/ GetHistory
    \/ CallerChangesTable
    \/ CallerChangesList
    \/ CallerChangesRecord

SpecCopies == InitConvert /\ [][NextCopies]_vars

-----------------------------------------------------------------------------
(* Threads: get_exchange_rate on the UI thread, fetch_rates on the thread
   refresh_rates starts for it, statement by statement *)

\* responses to the refresh thread's request, and the pairs asked on the UI thread
ThreadResponses ==
    {[kind |-> "ok", rates |-> RemoteA], [kind |-> "ok", rates |-> RemoteB],
     [kind |-> "timeout", rates |-> EmptyTable]}
ThreadPairs == {<<"USD", "EUR">>, <<"EUR", "USD">>, <<"EUR", "RUB">>}

\* the provider object the refresh thread's fetch_rates was called on
RefreshObject == IF refresh.detached THEN refresh.provider ELSE exchange_rate_provider

\* the refresh thread r and the installed provider once that object is obj
Holding(r, obj) == IF r.detached THEN [r EXCEPT !.provider = obj] ELSE r
Installing(obj) == IF refresh.detached THEN exchange_rate_provider ELSE obj

\* the installed provider as the last fetch_rates that ran to its end left it
Quiescent ==
    IF refresh.pc # "idle" /\ ~refresh.detached THEN refresh.before
    ELSE exchange_rate_provider

\* a get_exchange_rate in flight c, after a fetch_rates on the installed
\* provider ran to its end and left it as obj
Observing(c, obj) ==
    IF c.pc # "idle" /\ ~refresh.detached THEN [c EXCEPT !.seen = @ \cup {obj}] ELSE c

\* OnlineRateProvider.get_exchange_rate, one read of self.rates or
\* self.base_currency at a time (an Offline provider's table has no writer: its
\* get_exchange_rate is one step): the call afterwards and, once the call is
\* over, the value returned
get_exchange_rate_step(c, p) ==
    LET Return(v) == [call |-> NoCall, value |-> v]
        Goto(pc) == [call |-> [c EXCEPT !.pc = pc], value |-> Zero]
    IN  IF p.kind = "Offline"
        THEN Return(Offline_get_exchange_rate(p, c.from_currency, c.to_currency))
        ELSE IF c.pc = "start"
        THEN IF ~bool(p.rates) THEN Return(Zero)
             ELSE IF c.from_currency = c.to_currency THEN Return(One)
             ELSE Goto("if_from_base")
        ELSE IF c.pc = "if_from_base"
        THEN IF c.from_currency = p.base_currency THEN Goto("from_base")
             ELSE Goto("elif_to_base")
        ELSE IF c.pc = "elif_to_base"
        THEN IF c.to_currency = p.base_currency THEN Goto("to_base") ELSE Goto("cross")
        ELSE IF c.pc = "from_base"
        THEN Return(Get(p.rates, c.to_currency))
        ELSE IF c.pc = "to_base"
        THEN LET from_rate == Get(p.rates, c.from_currency)
             IN  Return(IF from_rate # Zero THEN RDiv(One, from_rate) ELSE Zero)
        ELSE IF c.pc = "cross"
        THEN [call |-> [c EXCEPT !.pc = "cross_to_rate",
                                 !.from_rate = Get(p.rates, c.from_currency)],
              value |-> Zero]
        ELSE LET to_rate == Get(p.rates, c.to_currency)
             IN  Return(IF c.from_rate # Zero /\ to_rate # Zero
                        THEN RDiv(to_rate, c.from_rate) ELSE Zero)

\* the UI thread enters get_exchange_rate
CallStart ==
    /\ call.pc = "idle"
    /\ \E pair \in ThreadPairs :
        call' = [pc |-> "start", from_currency |-> pair[1], to_currency |-> pair[2],
                 from_rate |-> Zero, seen |-> {Quiescent}]
    /\ op' = [name |-> "get_exchange_rate_called"]
    /\ ret' = None
    /\ UNCHANGED <<exchange_rate_provider, cache_file, history_list, clock, saved,
                   returned, refresh, fetched>>

\* the UI thread takes its next step in get_exchange_rate
CallStep ==
    /\ call.pc # "idle"
    /\ \E r \in {get_exchange_rate_step(call, exchange_rate_provider)} :
        /\ call' = r.call
        /\ op' = IF r.call.pc = "idle"
                 THEN [name |-> "get_exchange_rate", from_currency |-> call.from_currency,
                       to_currency |-> call.to_currency]
                 ELSE [name |-> "get_exchange_rate_step"]
        /\ ret' = IF r.call.pc = "idle" THEN r.value ELSE None
    /\ UNCHANGED <<exchange_rate_provider, cache_file, history_list, clock, saved,
                   returned, refresh, fetched>>

\* refresh_rates: the thread it starts calls fetch_rates on the installed
\* Online provider; requests.get gives `response`.  One refresh thread runs at a
\* time.
RefreshStart ==
    /\ refresh.pc = "idle"
    /\ exchange_rate_provider.kind = "Online"
    /\ \E response \in ThreadResponses :
        refresh' = [NoRefresh EXCEPT !.pc = "responded", !.response = response,
                                     !.before = exchange_rate_provider]
    /\ op' = [name |-> "refresh_rates"]
    /\ ret' = None
    /\ UNCHANGED <<exchange_rate_provider, cache_file, history_list, clock, saved,
                   returned, call, fetched>>

\* fetch_rates: self.rates = data['rates']
RefreshAssignRates ==
    /\ refresh.pc = "responded"
    /\ refresh.response.kind = "ok"
    /\ \E obj \in {[RefreshObject EXCEPT !.rates = refresh.response.rates]} :
        /\ exchange_rate_provider' = Installing(obj)
        /\ refresh' = [Holding(refresh, obj) EXCEPT !.pc = "assigned"]
    /\ op' = [name |-> "refresh_thread"]
    /\ ret' = None
    /\ UNCHANGED <<cache_file, history_list, clock, saved, returned, call, fetched>>

\* fetch_rates: self.last_update = datetime.now()
RefreshStamp ==
    /\ refresh.pc = "assigned"
    /\ \E obj \in {[RefreshObject EXCEPT !.last_update = Some(datetime(clock, 0))]} :
        /\ exchange_rate_provider' = Installing(obj)
        /\ refresh' = [Holding(refresh, obj) EXCEPT !.pc = "stamped"]
    /\ op' = [name |-> "refresh_thread"]
    /\ ret' = None
    /\ UNCHANGED <<cache_file, history_list, clock, saved, returned, call, fetched>>

\* save_cache: open(CACHE_FILE, "w") empties the file, or fails and fetch_rates
\* returns
RefreshOpen ==
    /\ refresh.pc = "stamped"
    /\ \E io \in {"ok", "open_fails"} :
        /\ cache_file' = IF io = "ok" THEN CorruptFile ELSE cache_file
        /\ fetched' = IF io = "ok" THEN None ELSE fetched
        /\ refresh' = IF io = "ok"
                      THEN [refresh EXCEPT !.pc = "opened", !.file = cache_file]
                      ELSE NoRefresh
        /\ call' = IF io = "ok" THEN call ELSE Observing(call, RefreshObject)
    /\ op' = [name |-> "refresh_thread"]
    /\ ret' = None
    /\ UNCHANGED <<exchange_rate_provider, history_list, clock, saved, returned>>

\* save_cache: json.dump and the end of the with block, then fetch_rates returns
RefreshWrite ==
    /\ refresh.pc = "opened"
    /\ \E io \in {"ok", "write_fails"} :
        /\ cache_file' = save_cache(RefreshObject, refresh.file, io)
        /\ fetched' = Written(fetched, refresh.response, io)
    /\ refresh' = NoRefresh
    /\ call' = Observing(call, RefreshObject)
    /\ op' = [name |-> "refresh_thread"]
    /\ ret' = None
    /\ UNCHANGED <<exchange_rate_provider, history_list, clock, saved, returned>>

\* load_cache after a failed request: json.load reads the file, or there is
\* nothing to load and fetch_rates returns
RefreshRead ==
    /\ refresh.pc = "responded"
    /\ refresh.response.kind # "ok"
    /\ refresh' = IF cache_file.state = "json"
                  THEN [refresh EXCEPT !.pc = "read", !.cache_data = cache_file]
                  ELSE NoRefresh
    /\ call' = IF cache_file.state = "json" THEN call ELSE Observing(call, RefreshObject)
    /\ op' = [name |-> "refresh_thread"]
    /\ ret' = None
    /\ UNCHANGED <<exchange_rate_provider, cache_file, history_list, clock, saved,
                   returned, fetched>>

\* load_cache: self.rates = cache_data.get("rates", {})
RefreshLoadRates ==
    /\ refresh.pc = "read"
    /\ \E obj \in {[RefreshObject EXCEPT
                        !.rates = FieldGet(refresh.cache_data.rates, EmptyTable)]} :
        /\ exchange_rate_provider' = Installing(obj)
        /\ refresh' = [Holding(refresh, obj) EXCEPT !.pc = "loaded_rates"]
    /\ op' = [name |-> "refresh_thread"]
    /\ ret' = None
    /\ UNCHANGED <<cache_file, history_list, clock, saved, returned, call, fetched>>

\* load_cache: self.base_currency = cache_data.get("base_currency", "USD")
RefreshLoadBase ==
    /\ refresh.pc = "loaded_rates"
    /\ \E obj \in {[RefreshObject EXCEPT
                        !.base_currency = FieldGet(refresh.cache_data.base_currency, "USD")]} :
        /\ exchange_rate_provider' = Installing(obj)
        /\ refresh' = [Holding(refresh, obj) EXCEPT !.pc = "loaded_base"]
    /\ op' = [name |-> "refresh_thread"]
    /\ ret' = None
    /\ UNCHANGED <<cache_file, history_list, clock, saved, returned, call, fetched>>

\* load_cache: last_update, then fetch_rates returns
RefreshLoadLastUpdate ==
    /\ refresh.pc = "loaded_base"
    /\ \E obj \in {load_cache(RefreshObject, refresh.cache_data).provider} :
        /\ exchange_rate_provider' = Installing(obj)
        /\ call' = Observing(call, obj)
    /\ refresh' = NoRefresh
    /\ op' = [name |-> "refresh_thread"]
    /\ ret' = None
    /\ UNCHANGED <<cache_file, history_list, clock, saved, returned, fetched>>

\* another instance leaves a table of base EUR in the cache file
ThreadsExternalWrite ==
    ExternalWriteOf({JsonFile(Some(CachedC), Some("EUR"), Some(strftime_cache(datetime(0, 0))))})

NextThreads ==
    \/ CallStart
    \/ CallStep
    \/ RefreshStart
    \/ RefreshAssignRates
    \/ RefreshStamp
    \/ RefreshOpen
    \/ RefreshWrite
    \/ RefreshRead
    \/ RefreshLoadRates
    \/ RefreshLoadBase
    \/ RefreshLoadLastUpdate
    \/ ToggleOfflineMode
    \/ ThreadsExternalWrite

SpecThreads == InitConvert /\ [][NextThreads]_vars

-----------------------------------------------------------------------------
(* Properties of the providers (Spec) *)

\* the table a read of the cache file yields: empty unless the file is a JSON
\* object with a rates field
CacheTable(file) ==
    IF file.state = "json" /\ file.rates # None THEN file.rates[1] ELSE EmptyTable

\* C1: get_exchange_rate(c, c) returns 1 for every code c, with either provider
\* variant and in every provider state, an Online provider without rates
\* included.
C1_SameCurrencyRateIsOne ==
    (op.name = "get_exchange_rate" /\ op.from_currency = op.to_currency) => ret = One

\* C2: a fetch_rates whose remote request failed while the cache file yields a
\* non-empty table leaves the provider with that table and returns False.
C2_FallbackReportsFailure ==
    (/\ op.name = "fetch_rates"
     /\ op.remote \in RemoteFailures
     /\ CacheTable(cache_file) # EmptyTable)
    => (exchange_rate_provider.rates = CacheTable(cache_file) /\ ret = FALSE)

\* C3: a fetch_rates whose remote request failed leaves last_update as it was
\* before the call, whatever timestamp the cache file carries.
C3_FallbackKeepsLastUpdate ==
    [][(op'.name = "fetch_rates" /\ op'.remote \in RemoteFailures)
       => exchange_rate_provider'.last_update = exchange_rate_provider.last_update]_vars

\* C4: a fetch_rates whose remote request failed while the cache file yields no
\* non-empty table returns False and leaves rates, base_currency and
\* last_update as they were before the call.
C4_FailedRefreshKeepsState ==
    [][(/\ op'.name = "fetch_rates"
        /\ op'.remote \in RemoteFailures
        /\ CacheTable(cache_file) = EmptyTable)
       => (ret' = FALSE /\ exchange_rate_provider' = exchange_rate_provider)]_vars

-----------------------------------------------------------------------------
(* Properties of convert (SpecConvert, SpecHistory) *)

\* C5: a convert that returns an error leaves the history as it was; a convert
\* that returns a result adds exactly one record at the end of the history
\* (the oldest record leaving when the history was full).
C5_HistoryChangesOnSuccessOnly ==
    [][op'.name = "convert"
       => IF ret'.error # None
          THEN history_list' = history_list
          ELSE /\ history_list' # <<>>
               /\ history_list' =
                    Append(IF Len(history_list) < HistoryCap THEN history_list
                           ELSE Tail(history_list),
                           history_list'[Len(history_list')])]_vars

\* a convert that returned an error after more than HistoryCap entries were saved
C5_Witness ==
    op.name = "convert" /\ ret.error # None /\ Len(saved) > HistoryCap

\* C6: convert checks the amount's syntax, then its sign, then the rate: an
\* unparseable amount gives InvalidAmount, else a negative one NegativeAmount,
\* else a rate <= 0 RateUnavailable, and an amount of zero at a positive rate
\* succeeds; no exception leaves convert, and exactly one of result and error
\* is returned.
C6_ChecksInOrder ==
    op.name = "convert" =>
        LET parsed == float(op.amount)
            rate == get_exchange_rate(exchange_rate_provider, op.from_currency,
                                      op.to_currency)
        IN  /\ ret.raised = None
            /\ (ret.result = None) # (ret.error = None)
            /\ parsed.exc # None => ret.error = Some("InvalidAmount")
            /\ (parsed.exc = None /\ RLtZero(parsed.val))
                => ret.error = Some("NegativeAmount")
            /\ (parsed.exc = None /\ ~RLtZero(parsed.val) /\ RLeqZero(rate))
                => ret.error = Some("RateUnavailable")
            /\ (parsed.exc = None /\ parsed.val = Zero /\ ~RLeqZero(rate))
                => (ret.error = None /\ ret.result = Zero)

\* a negative amount for a pair the provider has no rate for
C6_Witness ==
    /\ op.name = "convert"
    /\ float(op.amount).exc = None
    /\ RLtZero(float(op.amount).val)
    /\ get_exchange_rate(exchange_rate_provider, op.from_currency, op.to_currency) = Zero
    /\ ret.error = Some("NegativeAmount")

\* C7: for an amount a >= 0 and a pair the installed provider gives a positive
\* rate r for, convert returns (a * r, None), and the last record of the history
\* carries a, the two codes, r and a * r.
C7_ResultIsAmountTimesRate ==
    op.name = "convert" =>
        LET parsed == float(op.amount)
            rate == get_exchange_rate(exchange_rate_provider, op.from_currency,
                                      op.to_currency)
        IN  (parsed.exc = None /\ ~RLtZero(parsed.val) /\ ~RLeqZero(rate))
            => /\ ret.error = None
               /\ ret.result = Rat(parsed.val[1] * rate[1], parsed.val[2] * rate[2])
               /\ history_list # <<>>
               /\ LET record == history_list[Len(history_list)]
                  IN  /\ record.amount = parsed.val
                      /\ record.from_currency = op.from_currency
                      /\ record.to_currency = op.to_currency
                      /\ record.rate = rate
                      /\ record.result = ret.result

\* 12 EUR converted to GBP over a cross rate that is no whole number
C7_Witness ==
    /\ op.name = "convert"
    /\ op.amount = <<"1", "2">>
    /\ op.from_currency = "EUR"
    /\ op.to_currency = "GBP"
    /\ exchange_rate_provider.kind = "Offline"
    /\ exchange_rate_provider.rates = StaticRates
    /\ ret.result = Rat(12 * 73, 85)

\* C10: convert returns RateUnavailable and no result whenever from_currency or
\* to_currency is not a supported code (stated for the amounts that pass the
\* checks of syntax and sign, which come first).
C10_UnsupportedCodeFails ==
    (/\ op.name = "convert"
     /\ (op.from_currency \notin currencies \/ op.to_currency \notin currencies)
     /\ float(op.amount).exc = None
     /\ ~RLtZero(float(op.amount).val))
    => (ret.result = None /\ ret.error = Some("RateUnavailable"))

-----------------------------------------------------------------------------
(* Properties of the history (SpecHistory) *)

\* C8: the history never holds more than 50 records.
C8_HistoryAtMostCap == Len(history_list) <= HistoryCap

\* a full history after more than HistoryCap entries were saved
C8_Witness == Len(history_list) = HistoryCap /\ Len(saved) > HistoryCap

\* C9: after n entries saved since construction or the last clear_history, the
\* history is the last min(n, 50) of them, oldest first.
C9_HistoryIsLastSaved ==
    LET n == Len(saved)
        k == IF n < HistoryCap THEN n ELSE HistoryCap
    IN  history_list = SubSeq(saved, n - k + 1, n)

\* the 51st entry since a clear_history has been saved: the first one is gone
C9_Witness ==
    /\ op.name \in {"save_entry", "convert"}
    /\ Len(saved) = HistoryCap + 1
    /\ history_list[1] = saved[2]
    /\ history_list[1] # saved[1]
    /\ saved[1].timestamp # strftime_entry(datetime(2, 0))

-----------------------------------------------------------------------------
(* Properties of the rate function (Spec) *)

\* the base currency of the table provider p holds: an Online provider keeps
\* it; an Offline provider built from `file` holds the file's table, whose base
\* the file names (USD when it does not), or the static table, whose base is USD
TableBase(p, file) ==
    IF p.kind = "Online" THEN p.base_currency
    ELSE IF bool(CacheTable(file)) THEN FieldGet(file.base_currency, "USD")
    ELSE "USD"

\* C11: with a loaded table of base b, get_exchange_rate(b, to) is the table's
\* entry for `to` (0 if absent) and get_exchange_rate(from, b) the reciprocal of
\* the entry for `from` (0 if that entry is 0 or absent), for both provider
\* variants and whether or not the table has an entry for b.  Stated of the
\* provider every fetch_rates and every toggle_offline_mode leaves installed.
C11_BaseRates ==
    [][(op'.name \in {"fetch_rates", "toggle_offline_mode"}
        /\ bool(exchange_rate_provider'.rates))
       => LET p == exchange_rate_provider'
              b == TableBase(p, cache_file)
          IN  \A c \in QueryCodes \ {b} :
                  /\ get_exchange_rate(p, b, c) = Get(p.rates, c)
                  /\ get_exchange_rate(p, c, b) =
                        IF Get(p.rates, c) # Zero
                        THEN Rat(Get(p.rates, c)[2], Get(p.rates, c)[1])
                        ELSE Zero]_vars

\* the codes that are not the base of provider p's table.  An Offline provider
\* keeps no base and treats every code alike.
NonBaseCodes(p) ==
    IF p.kind = "Online" THEN QueryCodes \ {p.base_currency} ELSE QueryCodes

\* C12: for two distinct non-base codes x and y, get_exchange_rate(x, y) is
\* rate(y)/rate(x) when both table entries are positive, and then
\* get_exchange_rate(x, y) * get_exchange_rate(y, x) = 1; it is 0 when either
\* code is absent from the table or has the entry 0.  In every state, for the
\* installed provider, and for the value a get_exchange_rate call returned.
C12_Triangulation ==
    LET p == exchange_rate_provider
        expected(x, y) ==
            IF Get(p.rates, x)[1] > 0 /\ Get(p.rates, y)[1] > 0
            THEN Rat(Get(p.rates, y)[1] * Get(p.rates, x)[2],
                     Get(p.rates, y)[2] * Get(p.rates, x)[1])
            ELSE Zero
    IN  /\ \A x \in NonBaseCodes(p), y \in NonBaseCodes(p) :
            x # y =>
                /\ get_exchange_rate(p, x, y) = expected(x, y)
                /\ expected(x, y) # Zero =>
                     RMul(get_exchange_rate(p, x, y), get_exchange_rate(p, y, x)) = One
        /\ (/\ op.name = "get_exchange_rate"
            /\ op.from_currency # op.to_currency
            /\ {op.from_currency, op.to_currency} \subseteq NonBaseCodes(p))
           => ret = expected(op.from_currency, op.to_currency)

\* EUR to GBP asked of an Online provider holding the fetched table RemoteA
C12_Witness ==
    /\ op.name = "get_exchange_rate"
    /\ op.from_currency = "EUR"
    /\ op.to_currency = "GBP"
    /\ exchange_rate_provider.kind = "Online"
    /\ exchange_rate_provider.rates = RemoteA
    /\ ret = Rat(2, 1)

\* C13: an Offline provider constructed while the cache is empty (file missing,
\* unreadable, malformed, or with an empty rates table) holds the built-in
\* static table: non-empty, 1 for USD, a positive entry for every supported code.
C13_OfflineStaticFallback ==
    (/\ op.name = "toggle_offline_mode"
     /\ exchange_rate_provider.kind = "Offline"
     /\ CacheTable(cache_file) = EmptyTable)
    => /\ exchange_rate_provider.rates = StaticRates
       /\ bool(exchange_rate_provider.rates)
       /\ Get(exchange_rate_provider.rates, "USD") = One
       /\ \A c \in currencies :
            /\ c \in DOMAIN exchange_rate_provider.rates
            /\ exchange_rate_provider.rates[c][1] > 0

\* an Offline provider constructed over a file that does not parse
C13_Witness ==
    /\ op.name = "toggle_offline_mode"
    /\ exchange_rate_provider.kind = "Offline"
    /\ cache_file = CorruptFile
    /\ exchange_rate_provider.rates = StaticRates

-----------------------------------------------------------------------------
(* Properties of the cache (Spec) *)

\* C17: when a fetch_rates whose remote request succeeded returns True, the
\* cache file holds the rates, the base currency and the formatted timestamp of
\* the provider's memory, however the write of the cache file went.
C17_SuccessMeansPersisted ==
    (op.name = "fetch_rates" /\ op.remote = "ok" /\ ret = TRUE)
    => LET p == exchange_rate_provider
       IN  /\ cache_file.state = "json"
           /\ cache_file.rates = Some(p.rates)
           /\ cache_file.base_currency = Some(p.base_currency)
           /\ p.last_update # None
           /\ cache_file.last_update = Some(strftime_cache(p.last_update[1]))

\* C14: save_cache of any snapshot followed by load_cache on a provider in any
\* prior state leaves that provider with the snapshot's rates and base_currency
\* and with a last_update that is the snapshot's timestamp as the cache formats
\* it, None when the snapshot had none.
C14_CacheRoundTrip ==
    [][(op.name = "save_cache" /\ op'.name = "load_cache")
       => LET p == exchange_rate_provider'
          IN  /\ p.rates = op.snapshot.rates
              /\ p.base_currency = op.snapshot.base_currency
              /\ (op.snapshot.last_update = None) = (p.last_update = None)
              /\ last_update_text(p.last_update) =
                    last_update_text(op.snapshot.last_update)]_vars

-----------------------------------------------------------------------------
(* Properties of the provider swap (SpecConvert) *)

\* C19: a swap installs a provider of the other variant and leaves the history
\* as it was; a convert made after any number of swaps takes its rate from the
\* provider installed when it is called: for an amount that passes the checks
\* of syntax and sign it fails exactly when that provider's rate is not
\* positive, and the record it adds carries that provider's rate.
C19_ProviderSwappable ==
    [][/\ op'.name = "toggle_offline_mode"
          => /\ history_list' = history_list
             /\ exchange_rate_provider'.kind # exchange_rate_provider.kind
       /\ (/\ op'.name = "convert"
           /\ float(op'.amount).exc = None
           /\ ~RLtZero(float(op'.amount).val))
          => LET installed == exchange_rate_provider
                 rate == IF installed.kind = "Online"
                         THEN Online_get_exchange_rate(installed, op'.from_currency,
                                                       op'.to_currency)
                         ELSE Offline_get_exchange_rate(installed, op'.from_currency,
                                                        op'.to_currency)
             IN  IF RLeqZero(rate)
                 THEN ret'.error = Some("RateUnavailable") /\ history_list' = history_list
                 ELSE /\ ret'.error = None
                      /\ ret'.result = RMul(float(op'.amount).val, rate)
                      /\ history_list'[Len(history_list')].rate = rate]_vars

\* after a fetch of RemoteA and two swaps the installed provider is an Online
\* one without rates: a convert from the base fails, though the provider
\* before the swaps and the Offline one between them priced the pair
C19_Witness ==
    /\ op.name = "convert"
    /\ op.amount = <<"1", "2">>
    /\ op.from_currency = "USD"
    /\ op.to_currency = "EUR"
    /\ exchange_rate_provider = OnlineRateProvider
    /\ CacheTable(cache_file) = RemoteA
    /\ ret.error = Some("RateUnavailable")

-----------------------------------------------------------------------------
(* Properties of the values handed out (SpecCopies) *)

\* C15: whatever the caller does with a value get_all_rates or get_history
\* handed out (changing the dict, changing the list, assigning to a field of a
\* record), the provider's rate table, the history and every stored record stay
\* as they were.
C15_DefensiveCopies ==
    [][op'.name \in {"caller_changes_table", "caller_changes_list",
                      "caller_changes_record"}
       => /\ exchange_rate_provider' = exchange_rate_provider
          /\ history_list' = history_list]_vars

-----------------------------------------------------------------------------
(* Properties of the threads (SpecThreads) *)

\* C16: a get_exchange_rate on the installed Online provider that overlaps
\* fetch_rates calls of the refresh thread returns the rate of the table and
\* base currency one of those calls left behind, or of the ones the provider
\* had before them: never a value made of parts of two.  Stated of the calls
\* that return while no fetch_rates is under way on the provider.
C16_SingleSnapshotRate ==
    [][(/\ op'.name = "get_exchange_rate"
        /\ exchange_rate_provider.kind = "Online"
        /\ (refresh.pc = "idle" \/ refresh.detached))
       => ret' \in {Online_get_exchange_rate(snapshot, call.from_currency,
                                              call.to_currency) :
                        snapshot \in call.seen}]_vars

\* C18: an Offline provider constructed while the refresh thread is between
\* the open and the end of the write of the cache file, the file being as the
\* open left it, holds the table the file's previous content gives or the table
\* the content being written gives.
C18_NoPartialCacheObserved ==
    [][(/\ op'.name = "toggle_offline_mode"
        /\ exchange_rate_provider'.kind = "Offline"
        /\ refresh.pc = "opened"
        /\ cache_file = CorruptFile)
       => exchange_rate_provider'.rates \in
            {OfflineRateProvider(refresh.file).rates,
             OfflineRateProvider(save_cache(RefreshObject, refresh.file, "ok")).rates}]_vars

\* C20: an Offline provider constructed while the cache file holds what a
\* fetch_rates that fetched a non-empty table wrote, nothing having written the
\* file since, holds that table; and while an Offline provider stays
\* installed no step changes its table, a step of a fetch_rates still under
\* way on the Online provider installed before included.
C20_CacheHandOff ==
    [][/\ (/\ op'.name = "toggle_offline_mode"
            /\ exchange_rate_provider'.kind = "Offline"
            /\ fetched # None)
           => exchange_rate_provider'.rates = fetched[1]
       /\ (/\ exchange_rate_provider.kind = "Offline"
            /\ exchange_rate_provider'.kind = "Offline")
           => exchange_rate_provider'.rates = exchange_rate_provider.rates]_vars

\* the Offline provider holds the table RemoteA it was handed, after the
\* fetch_rates under way on the Online provider before it wrote RemoteB
C20_Witness ==
    /\ op.name = "refresh_thread"
    /\ exchange_rate_provider.kind = "Offline"
    /\ exchange_rate_provider.rates = RemoteA
    /\ refresh.pc = "idle"
    /\ fetched = Some(RemoteB)

-----------------------------------------------------------------------------
(* Properties of a fetch that reports success (Spec) *)

\* C21: a fetch_rates that returns True leaves the provider with a non-empty
\* table; and a fetch_rates whose remote request was answered leaves neither a
\* non-empty table in memory replaced by an empty one nor a non-empty table in
\* the cache file replaced by a written empty one.
C21_TrueMeansUsableRates ==
    [][op'.name = "fetch_rates"
       => /\ ret' = TRUE => bool(exchange_rate_provider'.rates)
          /\ (op'.remote = "ok" /\ bool(exchange_rate_provider.rates))
                => bool(exchange_rate_provider'.rates)
          /\ (op'.remote = "ok" /\ bool(CacheTable(cache_file)))
                => ~(/\ cache_file'.state = "json"
                     /\ cache_file'.rates = Some(EmptyTable))]_vars

====
